---- MODULE Spec2Model ----
(***************************************************************************)
(* Model of zodb-convert: the transaction copy engine                      *)
(* (src/src/zodb_convert/copier.py) driven the way cli.main drives it.     *)
(* A source storage holds a log of transactions; copy_transactions walks   *)
(* it and replays every transaction on the destination through the         *)
(* two-phase-commit calls.  Every call that can raise is a separate        *)
(* failure action that runs the engine's finally block.                    *)
(* Spec lets an incremental invocation follow the first one; SpecCopy is   *)
(* one call of copy_transactions by itself.                                *)
(* SpecMain puts cli.main and config.open_storages around the engine,      *)
(* SpecConfig reads a zope.conf (config.py), SpecProgress drives a         *)
(* ProgressReporter (progress.py).                                         *)
(***************************************************************************)
EXTENDS Integers, Sequences, FiniteSets, TLC

(* ---------------- bounds ---------------- *)
\* transactions in the source log
MaxTxns == 2
\* records in the whole source log
MaxRecs == 2
\* width of a TID in bytes (8 in ZODB), scaled down
TidLen == 2
\* number of values of one byte (256), scaled down
ByteBase == 2

(* ---------------- TIDs: ZODB.utils.p64 / u64 ---------------- *)
\* the value None
None == <<>>

RECURSIVE Pow(_, _)
Pow(b, n) == IF n = 0 THEN 1 ELSE b * Pow(b, n - 1)

\* largest value an unsigned TID holds (2^64 - 1 in ZODB)
MaxU64 == Pow(ByteBase, TidLen) - 1

\* what struct.pack raises for a value that does not fit
StructError == <<ByteBase>>

RECURSIVE u64(_)
u64(b) == IF Len(b) = 0 THEN 0
          ELSE u64(SubSeq(b, 1, Len(b) - 1)) * ByteBase + b[Len(b)]

\* fault variant: a value that does not fit is reduced modulo 2^64
p64_Wrapping(v) ==
    [i \in 1..TidLen |->
        ((v % (MaxU64 + 1)) \div Pow(ByteBase, TidLen - i)) % ByteBase]

p64(v) == IF v < 0 \/ v > MaxU64 THEN StructError
          ELSE [i \in 1..TidLen |-> (v \div Pow(ByteBase, TidLen - i)) % ByteBase]

IsTid(b) == /\ Len(b) = TidLen
            /\ \A i \in 1..TidLen : b[i] \in 0..(ByteBase - 1)

\* bytes comparison a < b, as Python compares byte strings
RECURSIVE BytesLess(_, _)
BytesLess(a, b) ==
    IF Len(b) = 0 THEN FALSE
    ELSE IF Len(a) = 0 THEN TRUE
    ELSE IF a[1] # b[1] THEN a[1] < b[1]
    ELSE BytesLess(Tail(a), Tail(b))

(* ---------------- the source storage ---------------- *)
\* TIDs a destination without the restore capability assigns by itself
DestTidValues == {1, 2, MaxU64}

Oids == {1, 2}

\* oid 1 is an ordinary object, oid 2 a Blob object
RecordShapes == {[oid |-> 1, blob |-> FALSE], [oid |-> 2, blob |-> TRUE]}

StatusOf(t) == IF t = 2 THEN "p" ELSE " "

MkRecord(t, shape) ==
    [oid |-> shape.oid, tid |-> p64(t),
     data |-> [blob |-> shape.blob, pickle |-> <<shape.oid, t>>],
     data_txn |-> None]

MkTxn(t, shapes) ==
    [tid |-> p64(t), status |-> StatusOf(t),
     user |-> <<"user", t>>, description |-> <<"note", t>>,
     extension |-> <<"ext", t>>,
     records |-> [j \in 1..Len(shapes) |-> MkRecord(t, shapes[j])]]

\* the TIDs of a log of n transactions: 1..n, or the last one the largest TID
TidSeqs(n) ==
    {[i \in 1..n |-> i], [i \in 1..n |-> IF i = n THEN MaxU64 ELSE i]}

ShapeSeqs == UNION {[1..n -> RecordShapes] : n \in 0..MaxRecs}

RECURSIVE TotalLen(_)
TotalLen(ss) == IF Len(ss) = 0 THEN 0 ELSE Len(ss[1]) + TotalLen(Tail(ss))

\* every source log of at most MaxTxns transactions and MaxRecs records:
\* ascending TIDs, each transaction any list of records
Sources ==
    UNION {
        {[i \in 1..n |-> MkTxn(ts[i], sh[i])] :
            ts \in TidSeqs(n),
            sh \in {x \in [1..n -> ShapeSeqs] : TotalLen(x) <= MaxRecs}}
        : n \in 0..MaxTxns}

is_blob_record(data) == data.blob

\* len(data) of a record's payload
DataLen(data) == Len(data.pickle)

\* source.loadBlob(oid, tid): the path of the source's blob file
BlobFile(oid, tid) == <<"blob", oid, u64(tid)>>

\* os.path.getsize of a source blob file
getsize(blob_filename) == 1 + blob_filename[2]

(* ---------------- config.py: a zope.conf and what is read from it ------- *)
\* <zodb_db> blocks in a zope.conf
MaxBlocks == 2

\* a zope.conf is read as text; the model keeps it as the sequence of its
\* lines, each an opening tag, a closing tag, a key or a % directive
Tok(kind) == [kind |-> kind, tag |-> "", name |-> "", key |-> "", value |-> 0]
OpenTag(tag, name) == [Tok("open") EXCEPT !.tag = tag, !.name = name]
CloseTag(tag) == [Tok("close") EXCEPT !.tag = tag]
KeyLine(key, value) == [Tok("key") EXCEPT !.key = key, !.value = value]
Directive == [Tok("directive") EXCEPT !.key = "%import"]

\* open(path) of a path that does not exist
NoFile == <<Tok("ENOENT")>>

DbNames == {"main", "catalog"}

\* the storage section of a block: a storage, a wrapper around a storage,
\* a storage type nested in itself, a section type whose name begins with
\* "zodb-", a section that is never closed, or none; n tells the sections
\* of a file apart (the path of the storage)
StorageShapes == {"plain", "wrapped", "stacked", "dashed", "unclosed", "none"}
StorageSection(shape, n) ==
    CASE shape = "plain" ->
            <<OpenTag("filestorage", ""), KeyLine("path", n),
              CloseTag("filestorage")>>
      [] shape = "wrapped" ->
            <<OpenTag("blobstorage", ""), KeyLine("blob-dir", n),
              OpenTag("filestorage", ""), KeyLine("path", n),
              CloseTag("filestorage"), CloseTag("blobstorage")>>
      [] shape = "stacked" ->
            <<OpenTag("demostorage", ""), OpenTag("demostorage", "base"),
              KeyLine("name", n), CloseTag("demostorage"),
              CloseTag("demostorage")>>
      [] shape = "dashed" ->
            <<OpenTag("zodb-replica", ""), KeyLine("path", n),
              CloseTag("zodb-replica")>>
      [] shape = "unclosed" ->
            <<OpenTag("filestorage", ""), KeyLine("path", n)>>
      [] OTHER -> <<>>

\* the lines of the n-th block of a file
BlockLines(block, n) ==
    <<OpenTag("zodb_db", block.name), KeyLine("mount-point", n),
      KeyLine("cache-size", n)>>
    \o StorageSection(block.shape, n)
    \o <<CloseTag("zodb_db")>>

RECURSIVE BlocksLines(_, _)
BlocksLines(blocks, n) ==
    IF n = 0 THEN <<>>
    ELSE BlocksLines(blocks, n - 1) \o BlockLines(blocks[n], n)

\* a zope.conf with a directive, another section and its <zodb_db> blocks
Content(blocks) ==
    <<Directive, OpenTag("http-server", ""), KeyLine("address", 0),
      CloseTag("http-server")>>
    \o BlocksLines(blocks, Len(blocks))

BlockLists ==
    UNION {[1..n -> [name : DbNames, shape : StorageShapes]] : n \in 0..MaxBlocks}

ZopeConfs == {Content(blocks) : blocks \in BlockLists} \cup {NoFile}

\* _ZOPE_SPECIFIC_KEYS
ZOPE_SPECIFIC_KEYS ==
    {"mount-point", "connection-class", "class-factory", "container-class"}

MinOf(S) == CHOOSE i \in S : \A j \in S : i <= j
MaxOf(S) == CHOOSE i \in S : \A j \in S : j <= i

IsDirective(t) == t.kind = "directive"
NotZopeKey(t) == ~(t.kind = "key" /\ t.key \in ZOPE_SPECIFIC_KEYS)

\* fault variant: the first <zodb_db> block is taken whatever its name
SectionStarts_AnyName(content, db_name) ==
    {i \in 1..Len(content) :
        /\ content[i].kind = "open" /\ content[i].tag = "zodb_db"
        /\ \E j \in (i + 1)..Len(content) : content[j] = CloseTag("zodb_db")}

\* the lines i where re.search can start a match of
\* <zodb_db\s+NAME\s*>.*?</zodb_db>
SectionStarts(content, db_name) ==
    {i \in 1..Len(content) :
        /\ content[i] = OpenTag("zodb_db", db_name)
        /\ \E j \in (i + 1)..Len(content) : content[j] = CloseTag("zodb_db")}

\* lines 45-66
extract_zodb_db_section(content, db_name) ==
    IF content = NoFile
    THEN [raised |-> "FileNotFoundError", directives |-> <<>>, section |-> <<>>]
    ELSE IF SectionStarts(content, db_name) = {}
    THEN [raised |-> "ValueError", directives |-> <<>>, section |-> <<>>]
    ELSE LET i == MinOf(SectionStarts(content, db_name))
             j == MinOf({k \in (i + 1)..Len(content) :
                            content[k] = CloseTag("zodb_db")})
         IN [raised |-> "",
             directives |-> SelectSeq(content, IsDirective),
             section |-> SelectSeq(SubSeq(content, i, j), NotZopeKey)]

\* the tags the pattern of line 76 skips
WrapperTags == {"zodb_db", "zodb"}

\* the leading run of word characters of a tag name, where the \b of the
\* lookahead (?!zodb_db\b|zodb\b|/) is tested: a hyphen ends the word
WordPrefix(tag) == IF tag = "zodb-replica" THEN "zodb" ELSE tag

\* lines 69-87; None and the empty text are both false at line 101
extract_inner_storage(section) ==
    LET starts == {i \in 1..Len(section) :
                      /\ section[i].kind = "open"
                      /\ WordPrefix(section[i].tag) \notin WrapperTags}
    IN IF starts = {} THEN None
       ELSE LET start_pos == MinOf(starts)
                closes == {j \in 1..Len(section) :
                              section[j] = CloseTag(section[start_pos].tag)}
            IN IF closes = {} THEN None
               ELSE SubSeq(section, start_pos, MaxOf(closes))

\* lines 106-107: the block rewritten as a <zodb NAME> section
AsZodbSection(section, db_name) ==
    [i \in 1..Len(section) |->
        IF section[i].kind = "open" /\ section[i].tag = "zodb_db"
        THEN OpenTag("zodb", db_name)
        ELSE IF section[i] = CloseTag("zodb_db") THEN CloseTag("zodb")
        ELSE section[i]]

\* lines 90-112: what is opened, by which ZODB.config function, and from
\* which configuration text
open_storage_from_zope_conf(content, db_name) ==
    LET e == extract_zodb_db_section(content, db_name)
        inner == extract_inner_storage(e.section)
    IN IF e.raised # "" THEN [raised |-> e.raised, by |-> "", config |-> <<>>]
       ELSE IF inner # <<>>
       THEN [raised |-> "", by |-> "storageFromString",
             config |-> e.directives \o inner]
       ELSE [raised |-> "", by |-> "databaseFromString",
             config |-> e.directives \o AsZodbSection(e.section, db_name)]

(* ---------------- state ---------------- *)
VARIABLES
    source,        \* the source storage's transaction log
    caps,          \* what detect_capabilities finds for the two storages
    dry_run,       \* argument of copy_transactions
    start_tid,     \* argument of copy_transactions (None: from the beginning)
    run,           \* "copy": first invocation, "resume": the incremental one
    prior,         \* how the previous invocation ended ("" if there was none)
    pc,            \* position in copy_transactions
    error,         \* the exception that left copy_transactions ("" if none)
    result,        \* the returned tuple, <<>> before the return
    fiter,         \* source iterator: next position, and whether closed
    cur,           \* index in source of txn_info, 0 outside a transaction
    ridx,          \* index of the next record of txn_info
    preindex,      \* oid -> previous serial (None: no entry)
    txn_count, obj_count, blob_count,
    temp_blobs,    \* staging paths registered for cleanup
    txn_byte_size, txn_blobs,
    committed,     \* destination: the committed transaction log
    committed0,    \* destination log when this invocation started
    inflight,      \* destination: the transaction begun and not finished
    stagedir,      \* files in destination.temporaryDirectory() with our prefix
    calls,         \* this invocation's calls on source, destination, progress
                   \* and the file system, in order
    main,          \* cli.main: its arguments, locals and exit status
    zconf,         \* open_storage_from_zope_conf: arguments and result
    progress       \* a ProgressReporter, the clock and the log

\* cli.main: the parsed command line
options == main.options
\* cli.main: the storages opened so far, in order
opened == main.opened
\* cli.main: the list its finally clause closes
closables == main.closables
\* cli.main: the storages close() was called on
closed == main.closed
\* cli.main: the process exit status, Running before
exit_status == main.exit_status

\* open_storage_from_zope_conf: the blocks of the file at path
conf == zconf.conf
\* open_storage_from_zope_conf: the database asked for
db_name == zconf.db_name
\* open_storage_from_zope_conf: what it gave
storage == zconf.storage

\* the fields of the ProgressReporter
reporter == progress.reporter
\* time.monotonic()
now == progress.now
\* the lines the last on_transaction call logged
logged == progress.logged

vars == <<source, caps, dry_run, start_tid, run, prior, pc, error, result, fiter,
          cur, ridx, preindex, txn_count, obj_count, blob_count, temp_blobs,
          txn_byte_size, txn_blobs, committed, committed0, inflight, stagedir,
          calls, main, zconf, progress>>

engine == <<preindex, txn_count, obj_count, blob_count, temp_blobs,
            txn_byte_size, txn_blobs, cur, ridx>>
dest == <<committed, inflight>>
args == <<source, caps, dry_run, start_tid, run, prior, committed0,
          main, zconf, progress>>

NoData == [blob |-> FALSE, pickle |-> <<>>]

\* one entry of the call trace; raised: the call raised instead of returning
Call(op) == [op |-> op, raised |-> FALSE, txn |-> None, oid |-> 0, tid |-> None,
             prev |-> None, status |-> "", data |-> NoData, data_txn |-> None,
             path |-> <<>>, count |-> 0, size |-> 0, blobs |-> 0]

Raising(call) == [call EXCEPT !.raised = TRUE]

Capabilities ==
    [source_has_iterator : BOOLEAN, source_has_blobs : BOOLEAN,
     dest_has_restore : BOOLEAN, dest_has_blob_restore : BOOLEAN,
     dest_has_blobs : BOOLEAN]

restoring == caps.dest_has_restore
blob_restoring == caps.dest_has_blob_restore
source_has_blobs == caps.source_has_blobs
dest_has_blobs == caps.dest_has_blobs

EmptyPreindex == [o \in Oids |-> None]

\* exit_status while main has not exited
Running == -1

\* cli.main is not involved: copy_transactions is called as the tests call it
NoMain ==
    main = [options |-> <<>>, opened |-> <<>>, closables |-> <<>>,
            closed |-> {}, exit_status |-> Running]

\* no zope.conf is being read
NoConf ==
    zconf = [conf |-> <<>>, db_name |-> "", storage |-> <<>>]

\* no ProgressReporter is looked into
NoReporter ==
    progress = [reporter |-> <<>>, now |-> 0, logged |-> <<>>]

\* the fields of copy_transactions before it is called
EngineInit ==
    /\ error = ""
    /\ result = <<>>
    /\ fiter = [pos |-> 0, closed |-> FALSE]
    /\ cur = 0
    /\ ridx = 0
    /\ preindex = EmptyPreindex
    /\ txn_count = 0 /\ obj_count = 0 /\ blob_count = 0
    /\ temp_blobs = <<>>
    /\ txn_byte_size = 0 /\ txn_blobs = 0
    /\ inflight = <<>>
    /\ stagedir = {}
    /\ calls = <<>>

\* no storage is being copied
NoEngine ==
    /\ source = <<>>
    /\ caps = [source_has_iterator |-> FALSE, source_has_blobs |-> FALSE,
               dest_has_restore |-> FALSE, dest_has_blob_restore |-> FALSE,
               dest_has_blobs |-> FALSE]
    /\ dry_run = FALSE
    /\ start_tid = None
    /\ run = "copy"
    /\ prior = ""
    /\ committed = <<>>
    /\ committed0 = <<>>
    /\ EngineInit

Init ==
    /\ NoMain /\ NoConf /\ NoReporter
    /\ source \in Sources
    /\ caps \in Capabilities
    /\ dry_run \in BOOLEAN
    /\ start_tid = None
    /\ run = "copy"
    /\ prior = ""
    /\ pc = "call"
    /\ committed = <<>>
    /\ committed0 = <<>>
    /\ EngineInit

(* ---------------- the destination storage ---------------- *)
RestoreOps == {"restore", "restoreBlob"}
BlobOps == {"restoreBlob", "storeBlob"}
WriteOps == {"restore", "store", "restoreBlob", "storeBlob"}

\* destination.iterator() yields something
storage_has_data(log) == Len(log) > 0

\* destination.lastTransaction()
lastTransaction(log) == log[Len(log)].tid

\* the TIDs the destination may give a transaction begun without one
AssignableTids(call, log) ==
    IF call.tid # None THEN {0}
    ELSE {v \in DestTidValues :
            v > (IF storage_has_data(log) THEN u64(lastTransaction(log)) ELSE 0)}

\* tpc_begin: the transaction the destination opens; it adopts the TID and
\* status it is given, and assigns its own TID v when given none
DestBegin(call, txn_info, v) ==
    [tid |-> IF call.tid # None THEN call.tid ELSE p64(v),
     status |-> IF call.tid # None THEN call.status ELSE " ",
     user |-> txn_info.user, description |-> txn_info.description,
     extension |-> txn_info.extension, records |-> <<>>]

\* store / restore / storeBlob / restoreBlob: one record written; blob is the
\* content of the staging file handed over
DestWrite(txn, call, blob) ==
    [txn EXCEPT !.records = Append(@,
        [oid |-> call.oid,
         serial |-> IF call.op \in RestoreOps THEN call.tid ELSE txn.tid,
         data |-> call.data,
         blob |-> IF call.op \in BlobOps THEN blob ELSE None,
         data_txn |-> call.data_txn])]

(* ---------------- the incremental cursor ---------------- *)
\* fault variant: the cursor is the last TID itself, not its successor
get_incremental_start_tid_NoSuccessor(log) ==
    IF ~storage_has_data(log) THEN None
    ELSE lastTransaction(log)

\* fault variant: the emptiness check of line 51 is missing
get_incremental_start_tid_NoEmptyCheck(log) ==
    LET last_tid == IF storage_has_data(log) THEN u64(lastTransaction(log)) ELSE 0
    IN p64(last_tid + 1)

\* lines 46-56
get_incremental_start_tid(log) ==
    IF ~storage_has_data(log) THEN None
    ELSE LET last_tid == u64(lastTransaction(log))
         IN p64(last_tid + 1)

(* ---------------- copy_transactions ---------------- *)
\* fault variant: source.iterator() called without start
FirstPos_NoStart(start) == 1

\* source.iterator(start=start_tid): position of the first TID >= start
FirstPos(start) ==
    LET later == {i \in 1..Len(source) : ~BytesLess(source[i].tid, start)}
    IN IF later = {} THEN Len(source) + 1
       ELSE CHOOSE i \in later : \A j \in later : i <= j

\* fault variant: the cleanup loop unlinks nothing
Unlinked_Nothing(dir, paths) == dir

\* os.unlink of every path in the list, errors suppressed
Unlinked(dir, paths) ==
    {f \in dir : \A i \in 1..Len(paths) : paths[i] # f.path}

\* fault variant: the finally block leaves the iterator open
Finally_NoClose(dir) ==
    /\ fiter' = fiter
    /\ stagedir' = Unlinked(dir, temp_blobs')

\* the finally block: close the iterator, unlink the registered staging files
Finally(dir) ==
    /\ fiter' = [fiter EXCEPT !.closed = TRUE]
    /\ stagedir' = Unlinked(dir, temp_blobs')

\* fault variant: the exception is swallowed and the loop goes on
Raise_Swallowed(kind, dir) ==
    /\ pc' = "loop"
    /\ error' = error
    /\ result' = result
    /\ Finally(dir)

\* an exception leaves copy_transactions through the finally block
Raise(kind, dir) ==
    /\ pc' = "raised"
    /\ error' = kind
    /\ result' = result
    /\ Finally(dir)

\* fault variant: the blob check ignores what the destination can do
IsBlobCandidate_NoDestCheck(record) ==
    source_has_blobs /\ is_blob_record(record.data)

\* the record a blob check is made on
IsBlobCandidate(record) ==
    source_has_blobs /\ dest_has_blobs /\ is_blob_record(record.data)

\* tempfile.mkstemp(prefix="zodbconvert_", dir=tmp_dir): a fresh path
StagePath == <<run, cur, ridx>>

\* fault variant: tpc_begin is never given the TID and status
BeginCall_NoTid(txn_info) ==
    [Call("tpc_begin") EXCEPT !.txn = txn_info.tid]

\* lines 104-107
BeginCall(txn_info) ==
    IF restoring
    THEN [Call("tpc_begin") EXCEPT !.txn = txn_info.tid, !.tid = txn_info.tid,
                                   !.status = txn_info.status]
    ELSE [Call("tpc_begin") EXCEPT !.txn = txn_info.tid]

RestoreBlobCall(record, txn_info) ==
    [Call("restoreBlob") EXCEPT !.txn = txn_info.tid, !.oid = record.oid,
        !.tid = record.tid, !.data = record.data, !.path = StagePath,
        !.data_txn = record.data_txn]

StoreBlobCall(record, txn_info) ==
    [Call("storeBlob") EXCEPT !.txn = txn_info.tid, !.oid = record.oid,
        !.prev = preindex[record.oid], !.data = record.data, !.path = StagePath]

RestoreCall(record, txn_info) ==
    [Call("restore") EXCEPT !.txn = txn_info.tid, !.oid = record.oid,
        !.tid = record.tid, !.data = record.data, !.data_txn = record.data_txn]

StoreCall(record, txn_info) ==
    [Call("store") EXCEPT !.txn = txn_info.tid, !.oid = record.oid,
        !.prev = preindex[record.oid], !.data = record.data]

\* fault variant: the path is chosen by the record's kind, not by whether
\* loadBlob gave a file
WriteCall_ByRecordKind(record, txn_info, blob_path) ==
    IF IsBlobCandidate(record)
    THEN IF blob_restoring THEN RestoreBlobCall(record, txn_info)
         ELSE StoreBlobCall(record, txn_info)
    ELSE IF restoring THEN RestoreCall(record, txn_info)
         ELSE StoreCall(record, txn_info)

\* lines 133-160: the write call made for a record; blob_path: blob_filename
\* is not None
WriteCall(record, txn_info, blob_path) ==
    IF blob_path
    THEN IF blob_restoring THEN RestoreBlobCall(record, txn_info)
         ELSE StoreBlobCall(record, txn_info)
    ELSE IF restoring THEN RestoreCall(record, txn_info)
         ELSE StoreCall(record, txn_info)

\* line 125
LoadCall(record) ==
    [Call("loadBlob") EXCEPT !.oid = record.oid, !.tid = record.tid]

\* lines 116-142: the calls made for a record before its write call
StagingCalls(record, loaded) ==
    IF ~IsBlobCandidate(record) THEN <<>>
    ELSE IF loaded
    THEN <<LoadCall(record), Call("temporaryDirectory"),
           [Call("mkstemp") EXCEPT !.path = StagePath],
           [Call("copy2") EXCEPT !.path = StagePath]>>
    ELSE <<Raising(LoadCall(record))>>

\* fault variant: the capability is checked after the iterator was opened
BeginUnsupported_AfterIterator ==
    /\ pc = "call"
    /\ ~caps.source_has_iterator
    /\ fiter' = [pos |-> FirstPos(start_tid), closed |-> FALSE]
    /\ calls' = Append(calls, [Call("iterator") EXCEPT !.tid = start_tid])
    /\ pc' = "raised"
    /\ error' = "ValueError"
    /\ UNCHANGED <<args, result, engine, dest, stagedir>>

\* line 72: the source cannot iterate
BeginUnsupported ==
    /\ pc = "call"
    /\ ~caps.source_has_iterator
    /\ pc' = "raised"
    /\ error' = "ValueError"
    /\ UNCHANGED <<args, result, fiter, engine, dest, stagedir, calls>>

\* lines 70-87: open the source iterator
Begin ==
    /\ pc = "call"
    /\ caps.source_has_iterator
    /\ fiter' = [pos |-> FirstPos(start_tid), closed |-> FALSE]
    /\ calls' = Append(calls, [Call("iterator") EXCEPT !.tid = start_tid])
    /\ preindex' = EmptyPreindex
    /\ txn_count' = 0 /\ obj_count' = 0 /\ blob_count' = 0
    /\ temp_blobs' = <<>>
    /\ pc' = "loop"
    /\ UNCHANGED <<args, error, result, cur, ridx, txn_byte_size, txn_blobs,
                   dest, stagedir>>

\* fault variant: the blob count returned is that of the last transaction
LoopExit_LastTxnBlobs ==
    /\ pc = "loop"
    /\ fiter.pos > Len(source)
    /\ temp_blobs' = temp_blobs
    /\ Finally(stagedir)
    /\ result' = <<txn_count, obj_count, txn_blobs>>
    /\ pc' = "done"
    /\ UNCHANGED <<args, error, cur, ridx, preindex, txn_count, obj_count,
                   blob_count, txn_byte_size, txn_blobs, dest, calls>>

\* lines 90, 186-194: the iterator is exhausted, return the counts
LoopExit ==
    /\ pc = "loop"
    /\ fiter.pos > Len(source)
    /\ temp_blobs' = temp_blobs
    /\ Finally(stagedir)
    /\ result' = <<txn_count, obj_count, blob_count>>
    /\ pc' = "done"
    /\ UNCHANGED <<args, error, cur, ridx, preindex, txn_count, obj_count,
                   blob_count, txn_byte_size, txn_blobs, dest, calls>>

\* fault variant: a dry run that misses the continue of line 101
DryRunTxn_NoContinue ==
    /\ pc = "loop"
    /\ fiter.pos <= Len(source)
    /\ dry_run
    /\ LET txn_info == source[fiter.pos]
           rec_count == Len(txn_info.records)
           call == BeginCall(txn_info)
       IN /\ obj_count' = obj_count + rec_count
          /\ txn_count' = txn_count + 1
          /\ calls' = calls \o <<[Call("on_transaction") EXCEPT
                  !.txn = txn_info.tid, !.count = rec_count], call>>
          /\ \E v \in AssignableTids(call, committed) :
                inflight' = <<DestBegin(call, txn_info, v)>>
    /\ cur' = fiter.pos
    /\ fiter' = [fiter EXCEPT !.pos = @ + 1]
    /\ ridx' = Len(source[fiter.pos].records) + 1
    /\ pc' = "records"
    /\ UNCHANGED <<args, error, result, preindex, blob_count,
                   temp_blobs, txn_byte_size, txn_blobs, committed, stagedir>>

\* lines 93-101: a transaction of a dry run
DryRunTxn ==
    /\ pc = "loop"
    /\ fiter.pos <= Len(source)
    /\ dry_run
    /\ LET txn_info == source[fiter.pos]
           rec_count == Len(txn_info.records)
       IN /\ obj_count' = obj_count + rec_count
          /\ txn_count' = txn_count + 1
          /\ calls' = Append(calls, [Call("on_transaction") EXCEPT
                  !.txn = txn_info.tid, !.count = rec_count])
    /\ cur' = fiter.pos
    /\ fiter' = [fiter EXCEPT !.pos = @ + 1]
    /\ UNCHANGED <<args, pc, error, result, ridx, preindex, blob_count,
                   temp_blobs, txn_byte_size, txn_blobs, dest, stagedir>>

\* lines 103-110: begin the destination transaction
TpcBegin ==
    /\ pc = "loop"
    /\ fiter.pos <= Len(source)
    /\ ~dry_run
    /\ LET txn_info == source[fiter.pos]
           call == BeginCall(txn_info)
       IN /\ \E v \in AssignableTids(call, committed) :
                inflight' = <<DestBegin(call, txn_info, v)>>
          /\ calls' = Append(calls, call)
    /\ cur' = fiter.pos
    /\ fiter' = [fiter EXCEPT !.pos = @ + 1]
    /\ ridx' = 1
    /\ txn_byte_size' = 0
    /\ txn_blobs' = 0
    /\ pc' = "records"
    /\ UNCHANGED <<args, error, result, preindex, txn_count, obj_count,
                   blob_count, temp_blobs, committed, stagedir>>

\* lines 112-164: copy one record.  loaded: source.loadBlob returned a file
\* name; moved: the destination renamed the staging file into place
CopyRecord ==
    /\ pc = "records"
    /\ ridx <= Len(source[cur].records)
    /\ LET txn_info == source[cur]
           tid == txn_info.tid
           record == txn_info.records[ridx]
           oid == record.oid
           data == record.data
       IN \E loaded \in BOOLEAN, moved \in BOOLEAN :
            /\ loaded => IsBlobCandidate(record)
            /\ LET blob_filename == BlobFile(oid, record.tid)
                   call == WriteCall(record, txn_info, loaded)
               IN /\ moved => call.op \in BlobOps
                  /\ inflight' = <<DestWrite(inflight[1], call, blob_filename)>>
                  /\ stagedir' = IF loaded /\ ~moved
                                 THEN stagedir \cup {[path |-> StagePath,
                                                      content |-> blob_filename]}
                                 ELSE stagedir
                  /\ temp_blobs' = IF loaded THEN Append(temp_blobs, StagePath)
                                   ELSE temp_blobs
                  /\ txn_byte_size' = txn_byte_size + DataLen(data)
                        + (IF loaded THEN getsize(blob_filename) ELSE 0)
                  /\ txn_blobs' = IF loaded THEN txn_blobs + 1 ELSE txn_blobs
                  /\ preindex' = IF call.op \in {"store", "storeBlob"}
                                 THEN [preindex EXCEPT ![oid] = tid]
                                 ELSE preindex
                  /\ calls' = calls \o StagingCalls(record, loaded) \o <<call>>
    /\ obj_count' = obj_count + 1
    /\ ridx' = ridx + 1
    /\ UNCHANGED <<args, pc, error, result, fiter, cur, txn_count, blob_count,
                   committed>>

\* fault variant: the transaction is finished without a vote
TpcVote_NoCall ==
    /\ pc = "records"
    /\ ridx > Len(source[cur].records)
    /\ calls' = calls
    /\ pc' = "finish"
    /\ UNCHANGED <<args, error, result, fiter, engine, dest, stagedir>>

\* line 166
TpcVote ==
    /\ pc = "records"
    /\ ridx > Len(source[cur].records)
    /\ calls' = Append(calls, [Call("tpc_vote") EXCEPT !.txn = source[cur].tid])
    /\ pc' = "finish"
    /\ UNCHANGED <<args, error, result, fiter, engine, dest, stagedir>>

\* the promotion of lines 172-175
Promoted(index, tid, committed_tid) ==
    IF ~restoring /\ committed_tid # None
    THEN [o \in Oids |-> IF index[o] = tid THEN committed_tid ELSE index[o]]
    ELSE index

\* the record count handed to progress.on_transaction at line 184
ReportedCount(total, delta) == total

\* lines 167-184: commit, promote, clean up, report
TpcFinish ==
    /\ pc = "finish"
    /\ LET txn_info == source[cur]
           tid == txn_info.tid
           committed_tid == inflight[1].tid
       IN /\ committed' = Append(committed, inflight[1])
          /\ inflight' = <<>>
          /\ txn_count' = txn_count + 1
          /\ blob_count' = blob_count + txn_blobs
          /\ preindex' = Promoted(preindex, tid, committed_tid)
          /\ stagedir' = Unlinked(stagedir, temp_blobs)
          /\ temp_blobs' = <<>>
          /\ calls' = calls \o
                <<[Call("tpc_finish") EXCEPT !.txn = tid, !.tid = committed_tid],
                  [Call("on_transaction") EXCEPT !.txn = tid,
                      !.count = ReportedCount(obj_count, Len(txn_info.records)),
                      !.size = txn_byte_size, !.blobs = txn_blobs]>>
    /\ pc' = "loop"
    /\ UNCHANGED <<args, error, result, fiter, cur, ridx, obj_count,
                   txn_byte_size, txn_blobs>>

(* ---------------- the calls that raise ---------------- *)
\* line 90: the source iterator raises while fetching the next transaction
IterationFails ==
    /\ pc = "loop"
    /\ calls' = Append(calls, Raising(Call("next")))
    /\ temp_blobs' = temp_blobs
    /\ Raise("IterationFailure", stagedir)
    /\ UNCHANGED <<args, cur, ridx, preindex, txn_count, obj_count, blob_count,
                   txn_byte_size, txn_blobs, dest>>

\* lines 104-107: tpc_begin raises
TpcBeginFails ==
    /\ pc = "loop"
    /\ fiter.pos <= Len(source)
    /\ ~dry_run
    /\ calls' = Append(calls, Raising(BeginCall(source[fiter.pos])))
    /\ cur' = fiter.pos
    /\ fiter' = [pos |-> fiter.pos + 1, closed |-> TRUE]
    /\ stagedir' = Unlinked(stagedir, temp_blobs)
    /\ pc' = "raised"
    /\ error' = "DestinationCommit"
    /\ UNCHANGED <<args, result, ridx, preindex, txn_count, obj_count,
                   blob_count, temp_blobs, txn_byte_size, txn_blobs, dest>>

\* line 112: the record iterator of txn_info raises
RecordIterFails ==
    /\ pc = "records"
    /\ calls' = Append(calls,
            Raising([Call("next_record") EXCEPT !.txn = source[cur].tid]))
    /\ temp_blobs' = temp_blobs
    /\ Raise("RecordIterationFailure", stagedir)
    /\ UNCHANGED <<args, cur, ridx, preindex, txn_count, obj_count, blob_count,
                   txn_byte_size, txn_blobs, dest>>

\* the steps of lines 135-140, each of which can raise
StagingSteps == <<"temporaryDirectory", "mkstemp", "copy2">>

\* lines 135-140: staging the blob raises at step n; once mkstemp has
\* returned the file exists, and it is registered only at line 141
StagingFails ==
    /\ pc = "records"
    /\ ridx <= Len(source[cur].records)
    /\ IsBlobCandidate(source[cur].records[ridx])
    /\ \E n \in 1..Len(StagingSteps) :
         /\ calls' = calls \o <<LoadCall(source[cur].records[ridx])>>
                \o [i \in 1..n |->
                      IF i = n THEN Raising([Call(StagingSteps[i]) EXCEPT
                                        !.path = IF i = 1 THEN <<>> ELSE StagePath])
                      ELSE [Call(StagingSteps[i]) EXCEPT
                                        !.path = IF i = 1 THEN <<>> ELSE StagePath]]
         /\ temp_blobs' = temp_blobs
         /\ Raise("StagingFailure",
                  IF StagingSteps[n] = "copy2"
                  THEN stagedir \cup {[path |-> StagePath, content |-> <<>>]}
                  ELSE stagedir)
    /\ UNCHANGED <<args, cur, ridx, preindex, txn_count, obj_count, blob_count,
                   txn_byte_size, txn_blobs, dest>>

\* lines 144-160: the destination's write call raises
WriteFails ==
    /\ pc = "records"
    /\ ridx <= Len(source[cur].records)
    /\ LET txn_info == source[cur]
           record == txn_info.records[ridx]
           blob_filename == BlobFile(record.oid, record.tid)
       IN \E loaded \in BOOLEAN :
            /\ loaded => IsBlobCandidate(record)
            /\ calls' = calls \o StagingCalls(record, loaded)
                  \o <<Raising(WriteCall(record, txn_info, loaded))>>
            /\ temp_blobs' = IF loaded THEN Append(temp_blobs, StagePath)
                             ELSE temp_blobs
            /\ txn_byte_size' = txn_byte_size
                  + (IF loaded THEN getsize(blob_filename) ELSE 0)
            /\ Raise("DestinationWrite",
                     IF loaded
                     THEN stagedir \cup {[path |-> StagePath,
                                          content |-> blob_filename]}
                     ELSE stagedir)
    /\ UNCHANGED <<args, cur, ridx, preindex, txn_count, obj_count, blob_count,
                   txn_blobs, dest>>

\* fault variant: a failed vote is swallowed and the loop goes on to the next
\* transaction
VoteFails_Continues ==
    /\ pc = "records"
    /\ ridx > Len(source[cur].records)
    /\ calls' = Append(calls,
            [Call("tpc_vote") EXCEPT !.txn = source[cur].tid])
    /\ pc' = "loop"
    /\ UNCHANGED <<args, error, result, fiter, engine, dest, stagedir>>

\* line 166: tpc_vote raises
VoteFails ==
    /\ pc = "records"
    /\ ridx > Len(source[cur].records)
    /\ calls' = Append(calls,
            Raising([Call("tpc_vote") EXCEPT !.txn = source[cur].tid]))
    /\ temp_blobs' = temp_blobs
    /\ Raise("DestinationCommit", stagedir)
    /\ UNCHANGED <<args, cur, ridx, preindex, txn_count, obj_count, blob_count,
                   txn_byte_size, txn_blobs, dest>>

\* fault variant: progress is told of a transaction whose tpc_finish raised
FinishFails_Reports ==
    /\ pc = "finish"
    /\ calls' = calls \o
            <<Raising([Call("tpc_finish") EXCEPT !.txn = source[cur].tid]),
              [Call("on_transaction") EXCEPT !.txn = source[cur].tid,
                  !.count = Len(source[cur].records)]>>
    /\ temp_blobs' = temp_blobs
    /\ Raise("DestinationCommit", stagedir)
    /\ UNCHANGED <<args, cur, ridx, preindex, txn_count, obj_count, blob_count,
                   txn_byte_size, txn_blobs, dest>>

\* line 167: tpc_finish raises, nothing is committed
FinishFails ==
    /\ pc = "finish"
    /\ calls' = Append(calls,
            Raising([Call("tpc_finish") EXCEPT !.txn = source[cur].tid]))
    /\ temp_blobs' = temp_blobs
    /\ Raise("DestinationCommit", stagedir)
    /\ UNCHANGED <<args, cur, ridx, preindex, txn_count, obj_count, blob_count,
                   txn_byte_size, txn_blobs, dest>>

(* ---------------- cli.main --incremental, run after the first copy ---- *)
\* the process is new: the storages were closed and opened again, so a
\* transaction left in flight is gone; files on disk stay.  (After a dry
\* run nothing has changed, and the second invocation is the first again.)
Resume ==
    /\ run = "copy"
    /\ pc \in {"done", "raised"}
    /\ ~dry_run
    /\ run' = "resume"
    /\ prior' = pc
    /\ dry_run' \in BOOLEAN
    /\ committed0' = committed
    /\ inflight' = <<>>
    /\ LET t == get_incremental_start_tid(committed)
       IN /\ start_tid' = t
          /\ IF t = StructError
             THEN pc' = "raised" /\ error' = "struct.error"
             ELSE pc' = "call" /\ error' = ""
    /\ result' = <<>>
    /\ fiter' = [pos |-> 0, closed |-> FALSE]
    /\ cur' = 0
    /\ ridx' = 0
    /\ preindex' = EmptyPreindex
    /\ txn_count' = 0 /\ obj_count' = 0 /\ blob_count' = 0
    /\ temp_blobs' = <<>>
    /\ txn_byte_size' = 0 /\ txn_blobs' = 0
    /\ calls' = <<>>
    /\ UNCHANGED <<source, caps, committed, stagedir, main, zconf, progress>>

Next ==
    \/ BeginUnsupported
    \/ Begin
    \/ LoopExit
    \/ DryRunTxn
    \/ TpcBegin
    \/ CopyRecord
    \/ TpcVote
    \/ TpcFinish
    \/ IterationFails
    \/ TpcBeginFails
    \/ RecordIterFails
    \/ StagingFails
    \/ WriteFails
    \/ VoteFails
    \/ FinishFails
    \/ Resume

Spec == Init /\ [][Next]_vars

(* ---------------- copy_transactions, called once ---------------- *)
\* the start_tid a caller passes: none, or the second TID
StartTids == {None, p64(2)}

\* one call of copy_transactions on an empty destination
InitCopy ==
    /\ NoMain /\ NoConf /\ NoReporter
    /\ source \in Sources
    /\ caps \in Capabilities
    /\ dry_run \in BOOLEAN
    /\ start_tid \in StartTids
    /\ run = "copy"
    /\ prior = ""
    /\ pc = "call"
    /\ committed = <<>>
    /\ committed0 = <<>>
    /\ EngineInit

NextCopy ==
    \/ BeginUnsupported
    \/ Begin
    \/ LoopExit
    \/ DryRunTxn
    \/ TpcBegin
    \/ CopyRecord
    \/ TpcVote
    \/ TpcFinish
    \/ IterationFails
    \/ TpcBeginFails
    \/ RecordIterFails
    \/ StagingFails
    \/ WriteFails
    \/ VoteFails
    \/ FinishFails

SpecCopy == InitCopy /\ [][NextCopy]_vars


(* ---------------- config.open_storages and cli.main ---------------- *)
\* a traditional config file, by the sections it has (SCHEMA_XML: both are
\* optional); given: the positional argument is there
ConfigFileOpts ==
    [given : {TRUE}, source : BOOLEAN, destination : BOOLEAN]
    \cup {[given |-> FALSE, source |-> FALSE, destination |-> FALSE]}

\* the zope.conf of test_config.py: one block, main, with a filestorage
MainZopeConf == Content(<<[name |-> "main", shape |-> "plain"]>>)

\* --source-zope-conf / --dest-zope-conf with --source-db / --dest-db
ZopeOpts ==
    [given : {TRUE}, content : {MainZopeConf, NoFile}, db : DbNames]
    \cup {[given |-> FALSE, content |-> <<>>, db |-> "main"]}

Options ==
    [config_file : ConfigFileOpts, source_zope_conf : ZopeOpts,
     dest_zope_conf : ZopeOpts, incremental : BOOLEAN, dry_run : BOOLEAN]

\* a storage object, by where it was opened from and as what
Sid(from, role) == [from |-> from, role |-> role]
NoStorage == Sid("", "")

\* the exception open_storage_from_zope_conf leaves open_storages with
ZopeConfError(raised) == IF raised = "ValueError" THEN "NoSection" ELSE raised

\* fault variant: a second specification silently replaces the first
SpecifiedTwice_Never(from_config, zope_opt) == FALSE

\* lines 139-140, 150-151: the zope.conf option is given although the config
\* file has supplied the storage
SpecifiedTwice(from_config, zope_opt) ==
    zope_opt.given /\ from_config # NoStorage

\* lines 115-169.  opened: every storage opened on the way, in order
open_storages(o) ==
    LET Raised(kind, sofar) ==
            [raised |-> kind, source |-> NoStorage, destination |-> NoStorage,
             opened |-> sofar, closables |-> <<>>]
        cfg_source == IF o.config_file.given /\ o.config_file.source
                      THEN Sid("config", "source") ELSE NoStorage
        cfg_dest == IF o.config_file.given /\ o.config_file.destination
                    THEN Sid("config", "destination") ELSE NoStorage
        opened1 == (IF cfg_source # NoStorage THEN <<cfg_source>> ELSE <<>>)
                   \o (IF cfg_dest # NoStorage THEN <<cfg_dest>> ELSE <<>>)
        zs == open_storage_from_zope_conf(o.source_zope_conf.content,
                                          o.source_zope_conf.db)
        zd == open_storage_from_zope_conf(o.dest_zope_conf.content,
                                          o.dest_zope_conf.db)
        src == IF o.source_zope_conf.given THEN Sid("zope", "source")
               ELSE cfg_source
        opened2 == IF o.source_zope_conf.given THEN Append(opened1, src)
                   ELSE opened1
        closables2 == IF o.source_zope_conf.given THEN <<src>> ELSE <<>>
        dst == IF o.dest_zope_conf.given THEN Sid("zope", "destination")
               ELSE cfg_dest
        opened3 == IF o.dest_zope_conf.given THEN Append(opened2, dst)
                   ELSE opened2
        closables3 == IF o.dest_zope_conf.given THEN Append(closables2, dst)
                      ELSE closables2
    IN IF SpecifiedTwice(cfg_source, o.source_zope_conf)
       THEN Raised("SourceInBoth", opened1)
       ELSE IF o.source_zope_conf.given /\ zs.raised # ""
       THEN Raised(ZopeConfError(zs.raised), opened1)
       ELSE IF SpecifiedTwice(cfg_dest, o.dest_zope_conf)
       THEN Raised("DestinationInBoth", opened2)
       ELSE IF o.dest_zope_conf.given /\ zd.raised # ""
       THEN Raised(ZopeConfError(zd.raised), opened2)
       ELSE IF src = NoStorage THEN Raised("NoSource", opened3)
       ELSE IF dst = NoStorage THEN Raised("NoDestination", opened3)
       ELSE [raised |-> "", source |-> src, destination |-> dst,
             opened |-> opened3, closables |-> closables3]

\* the exceptions of this model that are ValueError instances: the one of
\* copier.py line 73 and those of config.py
ValueErrors == {"ValueError", "SourceInBoth", "DestinationInBoth", "NoSource",
                "NoDestination", "NoSection"}

\* cli.py lines 154-159
ExitStatus(e) ==
    IF e \in ValueErrors \cup {"FileNotFoundError"} THEN 1 ELSE 2

\* the source storages main is run on: an empty one, one transaction with
\* an object and a blob, one transaction with the largest TID
MainSources ==
    {<<>>,
     <<MkTxn(1, <<[oid |-> 1, blob |-> FALSE], [oid |-> 2, blob |-> TRUE]>>)>>,
     <<MkTxn(MaxU64, <<[oid |-> 1, blob |-> FALSE]>>)>>}

\* the destination's copy of a source transaction
CopyOf(txn) ==
    [tid |-> txn.tid, status |-> txn.status, user |-> txn.user,
     description |-> txn.description, extension |-> txn.extension,
     records |-> [j \in 1..Len(txn.records) |->
                    [oid |-> txn.records[j].oid, serial |-> txn.records[j].tid,
                     data |-> txn.records[j].data, blob |-> None,
                     data_txn |-> txn.records[j].data_txn]]]

\* the destination of an earlier run: the first n source transactions
CopiedPrefix(src, n) == [i \in 1..n |-> CopyOf(src[i])]

InitMain ==
    /\ NoConf /\ NoReporter /\ NoEngine
    /\ main \in [options : Options, opened : {<<>>}, closables : {<<>>},
                  closed : {{}}, exit_status : {Running}]
    /\ pc = "main"

\* cli.py lines 102-135: parse the command line, open the storages, find
\* the start TID.  What the opened storages hold and can do shows here.
\* (The count of lines 121-130 only reads the source, and swallows what the
\* iteration raises.)
MainOpen ==
    /\ pc = "main"
    /\ IF ~(options.config_file.given \/ options.source_zope_conf.given
            \/ options.dest_zope_conf.given)
       THEN \* parse_args: parser.error
            /\ main' = [main EXCEPT !.exit_status = 2]
            /\ pc' = "exit"
            /\ UNCHANGED <<source, caps, dry_run, start_tid, committed,
                           committed0, error>>
       ELSE LET r == open_storages(options)
            IN /\ main' = [main EXCEPT !.opened = r.opened,
                                       !.closables = r.closables]
               /\ IF r.raised # ""
                  THEN /\ error' = r.raised
                       /\ pc' = "raised"
                       /\ UNCHANGED <<source, caps, dry_run, start_tid,
                                      committed, committed0>>
                  ELSE /\ source' \in MainSources
                       /\ caps' \in Capabilities
                       /\ \E n \in 0..Len(source') :
                             committed' = CopiedPrefix(source', n)
                       /\ committed0' = committed'
                       /\ dry_run' = options.dry_run
                       /\ LET t == IF options.incremental
                                   THEN get_incremental_start_tid(committed')
                                   ELSE None
                          IN /\ start_tid' = t
                             /\ IF t = StructError
                                THEN pc' = "raised" /\ error' = "struct.error"
                                ELSE pc' = "call" /\ error' = error
    /\ UNCHANGED <<run, prior, result, fiter, engine, inflight, stagedir, calls,
                   zconf, progress>>

\* cli.py lines 145-165: return 0 or sys.exit, after the finally clause has
\* closed the closables
MainExit ==
    /\ pc \in {"done", "raised"}
    /\ main' = [main EXCEPT
                    !.exit_status = IF pc = "done" THEN 0 ELSE ExitStatus(error),
                    !.closed = @ \cup {closables[i] : i \in 1..Len(closables)}]
    /\ pc' = "exit"
    /\ UNCHANGED <<source, caps, dry_run, start_tid, run, prior, committed0,
                   zconf, progress, error, result, fiter, engine, dest,
                   stagedir, calls>>

NextMain ==
    \/ MainOpen
    \/ BeginUnsupported
    \/ Begin
    \/ LoopExit
    \/ DryRunTxn
    \/ TpcBegin
    \/ CopyRecord
    \/ TpcVote
    \/ TpcFinish
    \/ IterationFails
    \/ TpcBeginFails
    \/ RecordIterFails
    \/ StagingFails
    \/ WriteFails
    \/ VoteFails
    \/ FinishFails
    \/ MainExit

SpecMain == InitMain /\ [][NextMain]_vars

(* ---------------- open_storage_from_zope_conf, called by itself -------- *)
\* the text of the file at the path given
ContentOf(file) == IF file.exists THEN Content(file.blocks) ELSE NoFile

\* the database names asked for: those of the blocks, and one no block has
RequestedNames == DbNames \cup {"temp"}

NotCalled == [raised |-> "", by |-> "", config |-> <<>>]

InitConfig ==
    /\ NoMain /\ NoReporter /\ NoEngine
    /\ zconf \in [conf : [exists : {TRUE}, blocks : BlockLists]
                          \cup {[exists |-> FALSE, blocks |-> <<>>]},
                   db_name : RequestedNames, storage : {NotCalled}]
    /\ pc = "conf"

\* config.py lines 90-112
OpenFromZopeConf ==
    /\ pc = "conf"
    /\ zconf' = [zconf EXCEPT
                    !.storage = open_storage_from_zope_conf(ContentOf(conf),
                                                            db_name)]
    /\ pc' = "conf_done"
    /\ UNCHANGED <<source, caps, dry_run, start_tid, run, prior, committed0,
                   main, progress, error, result, fiter, engine, dest,
                   stagedir, calls>>

NextConfig == OpenFromZopeConf

SpecConfig == InitConfig /\ [][NextConfig]_vars

(* ---------------- progress.ProgressReporter ---------------- *)
\* on_transaction calls on one reporter
MaxCalls == 5
\* seconds the clock runs
MaxTime == 6

\* line 64: a conversion with fewer transactions than this is small
SmallTotal == 100

\* the constructor arguments: total_txns (known: it is not None), verbose,
\* log_interval, log_count
ReporterArgs ==
    [total_known : BOOLEAN, total_txns : {0, SmallTotal - 1, SmallTotal},
     verbose : BOOLEAN, log_interval : {2, 3}, log_count : {2, 3}]

\* what one call hands over: record_count, byte_size, blob_count
TxnReports == {[record_count |-> 1, byte_size |-> 1, blob_count |-> 0],
               [record_count |-> 2, byte_size |-> 3, blob_count |-> 1]}

\* lines 44-57
NewReporter(a, t) ==
    [total_known |-> a.total_known,
     total_txns |-> IF a.total_known THEN a.total_txns ELSE 0,
     verbose |-> a.verbose, log_interval |-> a.log_interval,
     log_count |-> a.log_count,
     txn_count |-> 0, obj_count |-> 0, blob_count |-> 0, total_bytes |-> 0,
     start_time |-> t, last_log_time |-> t, last_log_txn_count |-> 0]

\* fault variant: a conversion of exactly SmallTotal transactions is small
per_transaction_Inclusive(r) ==
    r.verbose \/ (r.total_known /\ r.total_txns <= SmallTotal)

\* lines 59-64
per_transaction(r) ==
    r.verbose \/ (r.total_known /\ r.total_txns < SmallTotal)

\* lines 83-88
should_interval_log(r, t) ==
    LET elapsed_since_log == t - r.last_log_time
        txns_since_log == r.txn_count - r.last_log_txn_count
    IN elapsed_since_log >= r.log_interval \/ txns_since_log >= r.log_count

InitProgress ==
    /\ NoMain /\ NoConf /\ NoEngine
    /\ pc = "progress"
    /\ progress \in [reporter : {NewReporter(a, 0) : a \in ReporterArgs},
                      now : {0}, logged : {<<>>}]

\* a second passes
Tick ==
    /\ pc = "progress"
    /\ now < MaxTime
    /\ progress' = [progress EXCEPT !.now = @ + 1]
    /\ UNCHANGED <<source, caps, dry_run, start_tid, run, prior, committed0,
                   main, zconf, pc, error, result, fiter, engine, dest,
                   stagedir, calls>>

\* lines 66-81; logged: the lines this call writes to the log
OnTransaction ==
    /\ pc = "progress"
    /\ reporter.txn_count < MaxCalls
    /\ \E t \in TxnReports :
         LET r == [reporter EXCEPT
                     !.txn_count = @ + 1,
                     !.obj_count = @ + t.record_count,
                     !.blob_count = @ + t.blob_count,
                     !.total_bytes = @ + t.byte_size]
             is_first == r.txn_count = 1
         IN progress' =
              IF per_transaction(r) \/ is_first
              THEN [progress EXCEPT !.logged = <<"TX">>, !.reporter = r]
              ELSE IF should_interval_log(r, now)
              THEN [progress EXCEPT
                      !.logged = <<"Progress">>,
                      !.reporter = [r EXCEPT !.last_log_time = now,
                                             !.last_log_txn_count = r.txn_count]]
              ELSE [progress EXCEPT !.logged = <<>>, !.reporter = r]
    /\ UNCHANGED <<source, caps, dry_run, start_tid, run, prior, committed0,
                   main, zconf, pc, error, result, fiter, engine, dest,
                   stagedir, calls>>

NextProgress == Tick \/ OnTransaction

SpecProgress == InitProgress /\ [][NextProgress]_vars

(* ======================= properties ======================= *)
\* the source positions a copy from start has to copy
Selected(start) == {i \in 1..Len(source) : ~BytesLess(source[i].tid, start)}

\* positions of the calls of the trace with an operation among ops
CallsAt(ops) == {i \in 1..Len(calls) : calls[i].op \in ops}

IsBeginCall(c) == c.op = "tpc_begin"
BeginCalls == SelectSeq(calls, IsBeginCall)

DestinationOps == {"tpc_begin", "store", "restore", "storeBlob", "restoreBlob",
                   "tpc_vote", "tpc_finish", "temporaryDirectory"}

SameMetadata(d, s) ==
    /\ d.status = s.status
    /\ d.user = s.user
    /\ d.description = s.description
    /\ d.extension = s.extension

\* the destination transaction d holds all the records of source transaction s
SameRecords(d, s) ==
    /\ Len(d.records) = Len(s.records)
    /\ \A j \in 1..Len(s.records) :
         /\ d.records[j].oid = s.records[j].oid
         /\ d.records[j].data = s.records[j].data

\* C1: after a copy into an empty destination that restores, the destination
\* log has the source's TIDs in the source's order with the source's
\* status, user, description and extension, and every tpc_begin was given
\* the source entry, its tid and its status
C1_LogPreserved ==
    (run = "copy" /\ ~dry_run /\ restoring /\ pc = "done") =>
        /\ Len(committed) = Len(source)
        /\ \A i \in 1..Len(source) :
             /\ committed[i].tid = source[i].tid
             /\ SameMetadata(committed[i], source[i])
        /\ Len(BeginCalls) = Len(source)
        /\ \A i \in 1..Len(source) :
             /\ BeginCalls[i].txn = source[i].tid
             /\ BeginCalls[i].tid = source[i].tid
             /\ BeginCalls[i].status = source[i].status

C1_Witness ==
    /\ run = "copy" /\ ~dry_run /\ restoring /\ pc = "done"
    /\ Len(source) = 2
    /\ Len(committed) = 2
    /\ committed[2].status = "p"

\* C2: when copy_transactions is left by a failure while a destination
\* transaction is begun and not finished, tpc_abort has been called on the
\* destination
C2_AbortOnFailure ==
    (pc = "raised" /\ inflight # <<>>) => CallsAt({"tpc_abort"}) # {}

\* the source position the invocation was working on when it failed
FailedAt == IF error = "IterationFailure" THEN fiter.pos ELSE cur

\* the destination log holds, after what it held before, exactly the
\* source transactions first..last, each with all its records
HoldsCopies(first, last) ==
    /\ Len(committed) = Len(committed0) + (last - first + 1)
    /\ SubSeq(committed, 1, Len(committed0)) = committed0
    /\ \A i \in first..last :
         LET d == committed[Len(committed0) + (i - first + 1)]
         IN /\ SameRecords(d, source[i])
            /\ d.user = source[i].user
            /\ restoring => d.tid = source[i].tid

\* C3: a copy that fails while processing source transaction k leaves the
\* destination with exactly the transactions before k, complete, and k not
\* committed; the failure is raised, no later transaction is attempted, and
\* a copy that returns has skipped none
C3_FailureKeepsPrefix ==
    /\ (pc = "raised" /\ ~dry_run /\ error \notin {"ValueError", "struct.error"}) =>
          /\ HoldsCopies(FirstPos(start_tid), FailedAt - 1)
          /\ \A j \in (FailedAt + 1)..Len(source) : \A i \in 1..Len(calls) :
                calls[i].txn # source[j].tid
    /\ (pc = "done" /\ ~dry_run) =>
          HoldsCopies(FirstPos(start_tid), Len(source))
    /\ pc = "raised" => error # ""

C3_Witness ==
    /\ pc = "raised" /\ ~dry_run /\ run = "copy"
    /\ error = "DestinationWrite"
    /\ cur = 2
    /\ Len(source) = 2
    /\ Len(committed) = 1
    /\ Len(committed[1].records) = 1

\* C4: a dry run makes no mutating or staging call on the destination and
\* leaves its state as it was, and a run that returns, dry or not, returns
\* as txn_count the number of source transactions from start_tid on
C4_DryRunNoWrites ==
    /\ dry_run =>
          /\ CallsAt(DestinationOps) = {}
          /\ committed = committed0
          /\ inflight = <<>>
          /\ \A f \in stagedir : f.path[1] # run
    /\ pc = "done" => result[1] = Cardinality(Selected(start_tid))

C4_Witness ==
    /\ dry_run /\ pc = "done" /\ run = "resume"
    /\ committed # <<>>
    /\ result[1] >= 1

\* the blob records of the transactions a run from start scans
BlobRecords(start) ==
    {<<i, j>> \in (1..Len(source)) \X (1..MaxRecs) :
        /\ i \in Selected(start)
        /\ j <= Len(source[i].records)
        /\ is_blob_record(source[i].records[j].data)}

\* C5: a dry run between blob-capable storages returns as blob_count the
\* number of blob records of the transactions it scanned
C5_DryRunBlobCount ==
    (dry_run /\ pc = "done" /\ source_has_blobs /\ dest_has_blobs) =>
        result[3] = Cardinality(BlobRecords(start_tid))

\* the second invocation follows a copy that returned
AfterSuccessfulCopy == run = "resume" /\ prior = "done"

\* C6 as stated: after a successful copy, a copy from the incremental start
\* begins no destination transaction and returns txn_count = 0, whatever
\* the destination
C6_IncrementalNoop ==
    AfterSuccessfulCopy =>
        /\ CallsAt({"tpc_begin"}) = {}
        /\ pc = "done" => result[1] = 0

\* C6 amended: the same for destinations with the restore capability
C6_IncrementalNoopRestoring ==
    (AfterSuccessfulCopy /\ restoring) =>
        /\ CallsAt({"tpc_begin"}) = {}
        /\ pc = "done" => result[1] = 0
        /\ committed = committed0

C6_Witness ==
    /\ AfterSuccessfulCopy /\ restoring /\ ~dry_run
    /\ pc = "done"
    /\ result = <<0, 0, 0>>
    /\ Len(committed) = 2

\* the destination's last TID when the invocation started
LastTid0 == committed0[Len(committed0)].tid

\* on the restore path every TID given to tpc_begin is greater than every
\* TID the destination held when the invocation started
BeginsAfterCommitted ==
    \/ committed0 = <<>>
    \/ \A i \in 1..Len(calls) :
          (calls[i].op = "tpc_begin" /\ calls[i].tid # None) =>
              \A j \in 1..Len(committed0) :
                  BytesLess(committed0[j].tid, calls[i].tid)

\* C7 as stated: the incremental start is None exactly for an empty
\* destination, and otherwise the encoding of the last TID plus one
C7_IncrementalStart ==
    run = "resume" =>
        /\ (start_tid = None) <=> (committed0 = <<>>)
        /\ committed0 # <<>> =>
              /\ IsTid(start_tid)
              /\ u64(start_tid) = u64(LastTid0) + 1
        /\ BeginsAfterCommitted

\* C7 amended: the same when the last TID is not the largest one; for the
\* largest one the function raises and no copy starts
C7_IncrementalStartBelowMax ==
    run = "resume" =>
        /\ (start_tid = None) <=> (committed0 = <<>>)
        /\ (committed0 # <<>> /\ u64(LastTid0) < MaxU64) =>
              /\ IsTid(start_tid)
              /\ u64(start_tid) = u64(LastTid0) + 1
        /\ (committed0 # <<>> /\ u64(LastTid0) = MaxU64) =>
              /\ pc = "raised"
              /\ calls = <<>>
        /\ BeginsAfterCommitted

C7_Witness ==
    /\ run = "resume" /\ restoring /\ ~dry_run
    /\ committed0 # <<>>
    /\ pc = "done"
    /\ Len(committed) > Len(committed0)

\* C8: when copy_transactions has returned or raised, no staging file of
\* the engine is left in the destination's temporary directory
C8_NoStagingFilesLeft ==
    pc \in {"done", "raised"} => stagedir = {}

\* C9: when the source iterator yields nothing, the copy returns (0, 0, 0)
\* and has called neither the destination nor the progress reporter
C9_EmptySource ==
    (Selected(start_tid) = {} /\ pc \in {"loop", "done"}) =>
        /\ \A i \in 1..Len(calls) : calls[i].op = "iterator"
        /\ inflight = <<>>
        /\ committed = committed0
        /\ pc = "done" => result = <<0, 0, 0>>

C9_Witness ==
    /\ Selected(start_tid) = {}
    /\ pc = "done"
    /\ result = <<0, 0, 0>>
    /\ Len(source) > 0

\* positions of the loadBlob calls that raised
FailedLoads == {i \in CallsAt({"loadBlob"}) : calls[i].raised}

C11_CapabilitySet ==
    LET unsupported ==
            (IF restoring THEN {} ELSE {"restore"})
            \cup (IF blob_restoring THEN {} ELSE {"restoreBlob"})
            \cup (IF dest_has_blobs THEN {}
                  ELSE {"storeBlob", "temporaryDirectory"})
            \cup (IF source_has_blobs THEN {} ELSE {"loadBlob"})
            \cup (IF source_has_blobs /\ dest_has_blobs THEN {} ELSE BlobOps)
    IN /\ unsupported = {} \/ \A i \in 1..Len(calls) :
                                  calls[i].op \notin unsupported
       /\ (~source_has_blobs \/ ~dest_has_blobs) =>
             (pc = "done" => result[3] = 0)

\* a blob record of a blob-capable source was copied to a destination
\* without blobs, by store
C11_Witness ==
    /\ pc = "done" /\ ~dry_run
    /\ source_has_blobs /\ ~dest_has_blobs /\ ~restoring
    /\ \E i \in 1..Len(calls) :
          calls[i].op = "store" /\ is_blob_record(calls[i].data)
    /\ result[3] = 0

\* C12: a source without the iteration capability makes copy_transactions
\* raise before source.iterator and before any call on the destination, and
\* nothing is returned.
C12_UnsupportedSource ==
    ~caps.source_has_iterator =>
        /\ pc \in {"call", "raised"}
        /\ pc = "raised" => error = "ValueError"
        /\ calls = <<>>
        /\ fiter.pos = 0
        /\ result = <<>>
        /\ committed = committed0 /\ inflight = <<>>

C12_Witness ==
    /\ ~caps.source_has_iterator
    /\ pc = "raised" /\ error = "ValueError"
    /\ Len(source) > 0
    /\ caps.dest_has_restore

\* ProgressReporter.on_transaction: obj_count += record_count, over the
\* first n calls of the trace
RECURSIVE ReporterObjCount(_)
ReporterObjCount(n) ==
    IF n = 0 THEN 0
    ELSE ReporterObjCount(n - 1)
         + (IF calls[n].op = "on_transaction" THEN calls[n].count ELSE 0)

\* the number of records of the source transaction with TID t
RecordsOf(t) ==
    Len(source[CHOOSE i \in 1..Len(source) : source[i].tid = t].records)

\* C15: every progress.on_transaction call, of a commit as of a dry run, gets
\* the number of records of its transaction alone, so after a run the
\* reporter's accumulated obj_count is the obj_count that was returned.
C15_ReportedDelta ==
    /\ \A i \in 1..Len(calls) :
          calls[i].op = "on_transaction" => calls[i].count = RecordsOf(calls[i].txn)
    /\ pc = "done" => ReporterObjCount(Len(calls)) = result[2]

\* the calls that start the engine's work on a source transaction: tpc_begin,
\* or in a dry run the progress call
StartsTxn(c) == c.op = (IF dry_run THEN "on_transaction" ELSE "tpc_begin")
TxnStarts == SelectSeq(calls, StartsTxn)

IsReport(c) == c.op = "on_transaction"

\* C16: source transactions are processed in the order of the source
\* iterator, ascending in TID, and progress.on_transaction is called once
\* per committed or dry-run-skipped transaction: after tpc_finish of that
\* transaction has returned, before the tpc_begin of the next one, and never
\* for a transaction whose commit failed.
C16_OrderAndProgress ==
    LET starts == TxnStarts
        reports == SelectSeq(calls, IsReport)
        first == FirstPos(start_tid)
    IN /\ \A k \in 1..Len(starts) :
             /\ first + k - 1 <= Len(source)
             /\ starts[k].txn = source[first + k - 1].tid
             /\ k > 1 => BytesLess(starts[k - 1].txn, starts[k].txn)
       /\ \A k \in 1..Len(reports) :
             /\ first + k - 1 <= Len(source)
             /\ reports[k].txn = source[first + k - 1].tid
       /\ Len(starts) - Len(reports) \in {0, 1}
       /\ \A i \in 1..Len(calls) :
             /\ (calls[i].op = "tpc_finish" /\ ~calls[i].raised) =>
                   /\ i < Len(calls)
                   /\ calls[i + 1].op = "on_transaction"
                   /\ calls[i + 1].txn = calls[i].txn
             /\ (calls[i].op = "on_transaction" /\ ~dry_run) =>
                   /\ calls[i - 1].op = "tpc_finish"
                   /\ ~calls[i - 1].raised
                   /\ calls[i - 1].txn = calls[i].txn
             /\ calls[i].op = "tpc_begin" =>
                   \/ calls[i - 1].op = "iterator"
                   \/ /\ calls[i - 1].op = "on_transaction"
                      /\ BytesLess(calls[i - 1].txn, calls[i].txn)
       /\ pc = "done" =>
             /\ Len(reports) = result[1]
             /\ result[1] = Cardinality(Selected(start_tid))

\* two transactions were committed and reported, one after the other
C16_Witness ==
    /\ pc = "done" /\ ~dry_run
    /\ Len(TxnStarts) = 2
    /\ Cardinality(CallsAt({"on_transaction"})) = 2
    /\ \E i \in CallsAt({"on_transaction"}) :
          i < Len(calls) /\ calls[i + 1].op = "tpc_begin"

\* the returned tpc_finish calls before call i whose transaction wrote oid
CommitsOf(oid, i) ==
    {j \in 1..(i - 1) :
        /\ calls[j].op = "tpc_finish" /\ ~calls[j].raised
        /\ \E k \in 1..(j - 1) :
              /\ calls[k].op \in WriteOps /\ ~calls[k].raised
              /\ calls[k].oid = oid
              /\ calls[k].txn = calls[j].txn}

\* the TID the destination last committed for oid before call i, None if
\* this run has not committed it
LastCommitted(oid, i) ==
    IF CommitsOf(oid, i) = {} THEN None
    ELSE calls[CHOOSE j \in CommitsOf(oid, i) :
                  \A m \in CommitsOf(oid, i) : m <= j].tid

\* C17: on a destination without restore, the previous serial given to every
\* store or storeBlob call is the TID tpc_finish returned for the last
\* transaction of this run that wrote the OID, or None if there was none.
C17_PrevSerial ==
    ~restoring =>
        \A i \in 1..Len(calls) :
            calls[i].op \in {"store", "storeBlob"} =>
                calls[i].prev = LastCommitted(calls[i].oid, i)

\* source.iterator() was called in this invocation
IteratorOpened == CallsAt({"iterator"}) # {}

\* the exception a raising call leaves copy_transactions with
FailureOf(op) ==
    CASE op = "next" -> "IterationFailure"
      [] op = "next_record" -> "RecordIterationFailure"
      [] op \in {"tpc_begin", "tpc_vote", "tpc_finish"} -> "DestinationCommit"
      [] op \in WriteOps -> "DestinationWrite"
      [] OTHER -> "StagingFailure"

\* C18: however copy_transactions is left once the source iterator is open
\* (return, dry run, a raising destination call, a raising source iterator),
\* the iterator has been closed, no staging file still registered exists, and
\* the exception of the call that raised is the one that leaves the function.
C18_ExitCleanup ==
    (pc \in {"done", "raised"} /\ IteratorOpened) =>
        /\ fiter.closed
        /\ \A i \in 1..Len(temp_blobs) :
              \A f \in stagedir : f.path # temp_blobs[i]
        /\ pc = "raised" =>
              /\ calls[Len(calls)].raised
              /\ error = FailureOf(calls[Len(calls)].op)
              /\ result = <<>>
        /\ pc = "done" =>
              /\ error = ""
              /\ \A i \in 1..Len(calls) :
                    calls[i].raised => calls[i].op = "loadBlob"

\* a write call raised with a staging file registered
C18_Witness ==
    /\ pc = "raised" /\ error = "DestinationWrite"
    /\ Len(temp_blobs) > 0
    /\ fiter.closed
    /\ Len(committed) = 1

\* the blocks of the file whose name is the one asked for
NamedBlocks == {k \in 1..Len(conf.blocks) : conf.blocks[k].name = db_name}

\* C20: of a file with several <zodb_db NAME> blocks,
\* open_storage_from_zope_conf takes the block named db_name and opens the
\* storage from that block's inner storage section alone; when no block has
\* the name it raises ValueError and opens nothing.
C20_NamedBlock ==
    (pc = "conf_done" /\ conf.exists) =>
        IF NamedBlocks = {}
        THEN storage.raised = "ValueError" /\ storage.by = ""
             /\ storage.config = <<>>
        ELSE /\ storage.raised = ""
             /\ \E k \in NamedBlocks :
                   /\ conf.blocks[k].shape \in {"plain", "wrapped", "stacked"} =>
                         /\ storage.by = "storageFromString"
                         /\ storage.config =
                               <<Directive>> \o StorageSection(conf.blocks[k].shape, k)
                   /\ \A i \in 1..Len(storage.config) :
                         storage.config[i].kind = "key" => storage.config[i].value = k

\* the second of two blocks is the one asked for
C20_Witness ==
    /\ pc = "conf_done"
    /\ Len(conf.blocks) = 2
    /\ conf.blocks[1].name # db_name
    /\ conf.blocks[2].name = db_name
    /\ storage.by = "storageFromString"
    /\ \E i \in 1..Len(storage.config) : storage.config[i] = KeyLine("path", 2)

\* the exceptions of a failure while copying
OperationalFailures ==
    {"ValueError", "IterationFailure", "RecordIterationFailure",
     "StagingFailure", "DestinationWrite", "DestinationCommit"}

\* the exceptions of a wrong command line or configuration
ConfigErrors ==
    {"SourceInBoth", "DestinationInBoth", "NoSource", "NoDestination",
     "NoSection", "FileNotFoundError"}

\* C13: main exits with 0 only after copy_transactions returned; with 2 after
\* every failure raised while copying (a source that cannot iterate, a
\* destination call that raised, a source iterator that raised); and with 1
\* only after a duplicate or missing specification or a section or file that
\* was not found.
C13_ExitStatus ==
    pc = "exit" =>
        /\ exit_status = 0 => result # <<>>
        /\ error \in OperationalFailures => exit_status = 2
        /\ exit_status = 1 => error \in ConfigErrors

\* the storage a zope.conf option would give, were it opened
ZopeConfGives(zope_opt) ==
    zope_opt.given
    /\ open_storage_from_zope_conf(zope_opt.content, zope_opt.db).raised = ""

\* the storages of a role among those opened
OpenedAs(role) == {i \in 1..Len(opened) : opened[i].role = role}

\* C14: open_storages returns one source and one destination or raises: a
\* source (destination) in the config file together with --source-zope-conf
\* (--dest-zope-conf) is a duplicate-specification error, no source or no
\* destination after all inputs are combined is a missing-specification
\* error, and main then exits with status 1 without starting a copy.
C14_OneSourceOneDestination ==
    (pc # "main" /\ (options.config_file.given \/ options.source_zope_conf.given
                     \/ options.dest_zope_conf.given)) =>
        LET o == options
            twice_source == o.config_file.source /\ o.source_zope_conf.given
            twice_dest == o.config_file.destination /\ o.dest_zope_conf.given
            zope_source_ok == o.source_zope_conf.given => ZopeConfGives(o.source_zope_conf)
            zope_dest_ok == o.dest_zope_conf.given => ZopeConfGives(o.dest_zope_conf)
            combined == ~twice_source /\ ~twice_dest /\ zope_source_ok /\ zope_dest_ok
            no_source == ~o.config_file.source /\ ~o.source_zope_conf.given
            no_dest == ~o.config_file.destination /\ ~o.dest_zope_conf.given
        IN /\ twice_source => error = "SourceInBoth"
           /\ (twice_dest /\ ~twice_source /\ zope_source_ok) =>
                 error = "DestinationInBoth"
           /\ (combined /\ no_source) => error = "NoSource"
           /\ (combined /\ ~no_source /\ no_dest) => error = "NoDestination"
           /\ error \notin ConfigErrors =>
                 /\ Cardinality(OpenedAs("source")) = 1
                 /\ Cardinality(OpenedAs("destination")) = 1
                 /\ Len(opened) = 2
           /\ error \in ConfigErrors =>
                 /\ calls = <<>> /\ result = <<>>
                 /\ committed = <<>> /\ inflight = <<>>
                 /\ pc \in {"raised", "exit"}
                 /\ pc = "exit" => exit_status = 1

\* main has exited after the config file and --source-zope-conf both gave a
\* source
C14_Witness ==
    /\ pc = "exit" /\ exit_status = 1
    /\ error = "SourceInBoth"
    /\ options.config_file.destination
    /\ Len(opened) = 2

\* C19: a reporter that is verbose, or whose total is known and below 100,
\* logs one transaction line on every on_transaction call; any other logs
\* the first transaction, and then a progress line on exactly the calls at
\* which log_interval seconds have passed or log_count transactions were
\* processed since the last progress line, and takes that call as the new
\* baseline.
C19_LoggingTiers ==
    [][reporter'.txn_count = reporter.txn_count + 1 =>
        LET every == reporter.verbose
                     \/ (reporter.total_known /\ reporter.total_txns < 100)
            due == \/ now - reporter.last_log_time >= reporter.log_interval
                   \/ reporter'.txn_count - reporter.last_log_txn_count
                        >= reporter.log_count
            same_baseline ==
                /\ reporter'.last_log_time = reporter.last_log_time
                /\ reporter'.last_log_txn_count = reporter.last_log_txn_count
        IN IF every \/ reporter.txn_count = 0
           THEN logged' = <<"TX">> /\ same_baseline
           ELSE IF due
           THEN /\ logged' = <<"Progress">>
                /\ reporter'.last_log_time = now
                /\ reporter'.last_log_txn_count = reporter'.txn_count
           ELSE logged' = <<>> /\ same_baseline]_vars

\* a progress line written because of the time that passed, on a reporter
\* of a conversion of exactly 100 transactions
C19_Witness ==
    /\ pc = "progress"
    /\ logged = <<"Progress">>
    /\ ~reporter.verbose /\ reporter.total_known /\ reporter.total_txns = 100
    /\ reporter.txn_count = 2 /\ reporter.log_count = 3
    /\ reporter.last_log_time = now

\* the block open_storage_from_zope_conf hands to _extract_inner_storage
SectionOf == extract_zodb_db_section(ContentOf(conf), db_name).section

\* what _extract_inner_storage returned: the text storageFromString got
\* after the directives, or None when the fallback was taken
InnerOf ==
    IF storage.by = "storageFromString"
    THEN SubSeq(storage.config,
                Len(extract_zodb_db_section(ContentOf(conf), db_name).directives) + 1,
                Len(storage.config))
    ELSE None

\* the opening tags of the block whose name is neither zodb_db nor zodb
NonWrapperOpens ==
    {i \in 1..Len(SectionOf) :
        SectionOf[i].kind = "open" /\ SectionOf[i].tag \notin {"zodb_db", "zodb"}}

\* C21: _extract_inner_storage(section) returns the text from the first
\* opening tag of the block whose name is neither zodb_db nor zodb up to and
\* including the last closing tag of that name, so that a wrapper around a
\* nested storage section is returned whole; it returns None when the block
\* has no such tag or the tag is never closed.
C21_InnerStorage ==
    (pc = "conf_done" /\ storage.raised = "") =>
        IF NonWrapperOpens = {} THEN InnerOf = None
        ELSE LET first == MinOf(NonWrapperOpens)
                 closes == {j \in 1..Len(SectionOf) :
                               SectionOf[j] = CloseTag(SectionOf[first].tag)}
             IN IF closes = {} THEN InnerOf = None
                ELSE InnerOf = SubSeq(SectionOf, first, MaxOf(closes))

\* the same for the blocks whose storage section is not named zodb-...
C21_InnerStorageUndashed ==
    (\A i \in NonWrapperOpens : SectionOf[i].tag # "zodb-replica")
        => C21_InnerStorage

\* the calls of the destination's two-phase commit protocol
ProtocolOps == {"tpc_begin", "tpc_vote", "tpc_finish"} \cup WriteOps
IsProtocolCall(c) == c.op \in ProtocolOps

\* the source transaction a call was made for
SourceTxn(c) == source[CHOOSE k \in 1..Len(source) : source[k].tid = c.txn]

\* the operation the capability tables give for a record
TableOp(blob_path) ==
    IF blob_path THEN (IF blob_restoring THEN "restoreBlob" ELSE "storeBlob")
    ELSE (IF restoring THEN "restore" ELSE "store")

\* C22: for every source transaction that commits in a run that is not a dry
\* run the destination is called in this order: tpc_begin (with the source
\* TID and status exactly when the destination restores), one write call per
\* source record in the order of the records (restoreBlob or storeBlob for a
\* record on the blob path, restore or store otherwise, as the capabilities
\* say), tpc_vote, tpc_finish; and no write, vote or finish is made outside
\* a transaction that was begun.
C22_CallSequence ==
    LET protocol == SelectSeq(calls, IsProtocolCall)
    IN /\ \A f \in 1..Len(protocol) :
             (protocol[f].op = "tpc_finish" /\ ~protocol[f].raised) =>
                LET txn_info == SourceTxn(protocol[f])
                    n == Len(txn_info.records)
                    b == f - n - 2
                IN /\ b >= 1
                   /\ protocol[b].op = "tpc_begin"
                   /\ protocol[b].txn = txn_info.tid
                   /\ protocol[b].tid = (IF restoring THEN txn_info.tid ELSE None)
                   /\ protocol[b].status =
                         (IF restoring THEN txn_info.status ELSE "")
                   /\ \A j \in 1..n :
                         /\ protocol[b + j].op \in WriteOps
                         /\ protocol[b + j].txn = txn_info.tid
                         /\ protocol[b + j].oid = txn_info.records[j].oid
                         /\ protocol[b + j].data = txn_info.records[j].data
                         /\ protocol[b + j].op \in RestoreOps =>
                               protocol[b + j].tid = txn_info.records[j].tid
                   /\ protocol[f - 1].op = "tpc_vote"
                   /\ protocol[f - 1].txn = txn_info.tid
       /\ \A i \in 1..Len(protocol) :
             /\ protocol[i].raised => i = Len(protocol)
             /\ protocol[i].op \in WriteOps \cup {"tpc_vote"} =>
                   /\ i > 1
                   /\ protocol[i - 1].op \in WriteOps \cup {"tpc_begin"}
                   /\ protocol[i - 1].txn = protocol[i].txn
             /\ protocol[i].op = "tpc_finish" =>
                   /\ i > 1
                   /\ protocol[i - 1].op = "tpc_vote"
                   /\ protocol[i - 1].txn = protocol[i].txn
       /\ \A i \in 1..Len(calls) :
             calls[i].op \in WriteOps =>
                /\ calls[i].op = TableOp(calls[i - 1].op = "copy2")
                /\ calls[i].op \in BlobOps =>
                      /\ ~calls[i - 1].raised
                      /\ calls[i - 1].path = calls[i].path
       /\ dry_run => Len(protocol) = 0

\* a transaction of two records, the first on the blob path and the second
\* not, was committed by begin, storeBlob, store, vote, finish
C22_Witness ==
    /\ pc = "done" /\ ~dry_run /\ ~restoring
    /\ \E i \in 1..Len(calls) :
          /\ calls[i].op = "tpc_begin"
          /\ i + 8 <= Len(calls)
          /\ calls[i + 4].op = "copy2"
          /\ calls[i + 5].op = "storeBlob"
          /\ calls[i + 6].op = "store"
          /\ calls[i + 7].op = "tpc_vote"
          /\ calls[i + 8].op = "tpc_finish" /\ ~calls[i + 8].raised

\* the staging files of this invocation that are on disk
StagedNow == {f \in stagedir : f.path[1] = run}

\* C23: staging files do not outlive their transaction: the files registered
\* while transaction n is copied are unlinked (or were already gone) and the
\* cleanup list is empty once n is committed, before progress is told of n
\* and before tpc_begin of transaction n+1; and the cleanup list holds only
\* paths the engine got from mkstemp, never a blob file of the source.
C23_StagingLifetime ==
    /\ \A k \in 1..Len(temp_blobs) :
          /\ temp_blobs[k][1] = run /\ temp_blobs[k][2] = cur
          /\ temp_blobs[k][1] # "blob"
          /\ \E i \in 1..Len(calls) :
                /\ calls[i].op = "mkstemp" /\ ~calls[i].raised
                /\ calls[i].path = temp_blobs[k]
    /\ pc \in {"records", "finish"} => \A f \in StagedNow : f.path[2] = cur
    /\ pc \in {"loop", "done"} => (temp_blobs = <<>> /\ StagedNow = {})
    /\ (Len(calls) > 0 /\ calls[Len(calls)].op \in {"on_transaction", "tpc_begin"}
        /\ ~calls[Len(calls)].raised) =>
            (temp_blobs = <<>> /\ StagedNow = {})

\* the second transaction was begun after a blob of the first was staged,
\* written and committed, and no staging file is left
C23_Witness ==
    /\ ~dry_run
    /\ pc = "records" /\ cur = 2 /\ start_tid = None
    /\ calls[Len(calls)].op = "tpc_begin"
    /\ \E i \in 1..Len(calls) :
          /\ calls[i].op = "copy2" /\ ~calls[i].raised
          /\ calls[i].path = <<run, 1, 1>>
    /\ stagedir = {}

\* the OIDs the transaction being committed has written
WrittenOids == {source[cur].records[j].oid : j \in 1..Len(source[cur].records)}

\* C24: on the store path the promotion after tpc_finish changes only the
\* preindex entries of the OIDs written in the transaction just committed:
\* the entry of every other OID is the same before and after, whatever TIDs
\* the destination assigns.
C24_PromotionFrame ==
    [][(pc = "finish" /\ pc' = "loop" /\ ~restoring) =>
          \A o \in Oids \ WrittenOids : preindex'[o] = preindex[o]]_vars

\* C25: on every exit path of main (a successful copy, a configuration
\* error raised by open_storages after a storage was opened, a failure while
\* copying) close() has been called on every storage opened during the run,
\* whether it came from the config file or from a zope.conf.
C25_AllClosed ==
    pc = "exit" => \A i \in 1..Len(opened) : opened[i] \in closed

\* C26: at every point of a copy at most one destination transaction is in
\* flight: tpc_begin is called only when no transaction begun earlier is
\* still unfinished, and when copy_transactions returns normally none is
\* left in flight.
C26_OneInFlight ==
    /\ Len(inflight) <= 1
    /\ pc \in {"call", "loop", "done"} => inflight = <<>>
    /\ \A i \in 1..Len(calls) :
          calls[i].op = "tpc_begin" =>
             \/ calls[i - 1].op = "iterator"
             \/ /\ calls[i - 1].op = "on_transaction"
                /\ calls[i - 2].op = "tpc_finish" /\ ~calls[i - 2].raised

\* two transactions were begun and finished one after the other, and the
\* copy returned
C26_Witness ==
    /\ pc = "done" /\ ~dry_run
    /\ Cardinality(CallsAt({"tpc_begin"})) = 2
    /\ Len(committed) = Len(committed0) + 2
    /\ inflight = <<>>

\* ProgressReporter.on_transaction: blob_count += blob_count, over the first
\* n calls of the trace
RECURSIVE ReporterBlobCount(_)
ReporterBlobCount(n) ==
    IF n = 0 THEN 0
    ELSE ReporterBlobCount(n - 1)
         + (IF calls[n].op = "on_transaction" THEN calls[n].blobs ELSE 0)

\* C27: when copy_transactions returns normally and the run is not a dry
\* run, the txn_count returned is the number of tpc_finish calls that
\* returned, the obj_count returned the number of write calls, the
\* blob_count returned the number of restoreBlob and storeBlob calls; and
\* the reporter has counted as many transactions and blobs as were returned.
C27_ReturnedCounts ==
    (pc = "done" /\ ~dry_run) =>
        /\ \A i \in 1..Len(calls) : ~calls[i].raised \/ calls[i].op = "loadBlob"
        /\ result[1] = Cardinality(CallsAt({"tpc_finish"}))
        /\ result[2] = Cardinality(CallsAt(WriteOps))
        /\ result[3] = Cardinality(CallsAt(BlobOps))
        /\ Cardinality(CallsAt({"on_transaction"})) = result[1]
        /\ ReporterBlobCount(Len(calls)) = result[3]

\* a copy of two transactions returned: one record went by the blob path in
\* the first, one without a blob in the second
C27_Witness ==
    /\ pc = "done" /\ ~dry_run
    /\ result = <<2, 2, 1>>
    /\ \E i \in 1..Len(calls) :
          /\ calls[i].op = "on_transaction" /\ calls[i].blobs = 1
          /\ \E j \in (i + 1)..Len(calls) :
                calls[j].op = "on_transaction" /\ calls[j].blobs = 0

\* C28: get_incremental_start_tid never wraps around: when the last TID t of
\* a non-empty destination is below the largest TID the result is a TID with
\* u64(r) = u64(t) + 1 > u64(t); when t is the largest TID it returns no TID
\* at all (it fails), neither the zero TID nor any TID <= t.
C28_NoWrapAround ==
    (run = "resume" /\ committed0 # <<>>) =>
        LET t == u64(LastTid0)
        IN IF t < MaxU64
           THEN /\ IsTid(start_tid)
                /\ u64(start_tid) = t + 1
                /\ u64(start_tid) > t
                /\ BytesLess(LastTid0, start_tid)
           ELSE /\ t = MaxU64
                /\ ~IsTid(start_tid)
                /\ start_tid # None
                /\ pc = "raised" /\ error = "struct.error"
                /\ calls = <<>>

\* the destination's last TID is the largest one, and the call failed
C28_Witness ==
    /\ run = "resume"
    /\ committed0 # <<>>
    /\ u64(LastTid0) = MaxU64
    /\ start_tid = StructError
    /\ error = "struct.error"

====
